---- MODULE Spec2Model ----
(***************************************************************************)
(* Model of the PEG parse-state runtime (src/parser-state.js): the cursor, *)
(* the lazily filled line/column cache, the stack of expectation frames,   *)
(* the construction and the text of the syntax error, and the default      *)
(* tracer.                                                                 *)
(*                                                                         *)
(* A JavaScript string is a sequence of characters, a character is a       *)
(* one-letter TLA+ string (or the name of a code point).  An array is a    *)
(* sequence, the sparse array _cache is a function whose domain is the set *)
(* of filled slots.                                                        *)
(***************************************************************************)
EXTENDS Integers, Sequences, FiniteSets, TLC

VARIABLES
    input,      \* this.input
    offset,     \* this._offset
    mark,       \* this._mark
    expected,   \* this._expected, the stack of frames, bottom first
    cache,      \* this._cache
    pc,         \* where parse() is: "ready", "rule", "returned", "thrown"
    ret,        \* the value last returned by a matcher or the rule function
    result,     \* the value parse() returned, NoValue before
    err,        \* the SyntaxError parse() threw, NoError before
    loc,        \* the value returned by the last location query
    base,       \* history: the arguments the constructor was called with
    call,       \* history: the last call, its argument and the offset then
    calls,      \* history: the furthest offset given to _expect, and what
                \* was given to it there
    topLog,     \* history: the offset the top frame was created at and the
                \* _expect calls made on it since
    twin,       \* history: a second stack, driven without inversion
    scanned,    \* history: how often the line/column scan has examined each
                \* character, and the order of the positions asked for
    indentLevel, \* DefaultTracer.indentLevel
    traced      \* history: what the tracer printed last, and the rules open

vars == <<input, offset, mark, expected, cache, pc, ret, result, err, loc,
          base, call, calls, topLog, twin, scanned, indentLevel, traced>>

----------------------------------------------------------------------------
(* Bounds of the model.                                                    *)

MaxLen == 1         \* longest input given to parse()
MaxDepth == 3       \* most frames on the stack, the root included
MaxVariants == 2    \* most expectations held by the stack at once
MaxLog == 4         \* most _expect calls logged for one frame
MaxText == 2        \* longest input and literal given to the matchers and
                    \* to the location queries
MaxBase == 1        \* largest baseline offset
MaxNot == 2         \* deepest nesting of "not" in an expectation passed

----------------------------------------------------------------------------
(* JavaScript values and string primitives.                                *)

Min(a, b) == IF a < b THEN a ELSE b
Max(a, b) == IF a > b THEN a ELSE b

\* All strings over an alphabet up to a length.
Strings(alphabet, n) == UNION {[1..k -> alphabet] : k \in 0..n}

LF == "\n"                  \* char code 10
CapIDot == "U+0130"         \* LATIN CAPITAL LETTER I WITH DOT ABOVE
CombDot == "U+0307"         \* COMBINING DOT ABOVE
NaN == "NaN"

Str(s) == [t |-> "string", s |-> s]
Null == [t |-> "null"]
FAILED == [t |-> "FAILED"]
NoValue == [t |-> "undefined"]

\* String.prototype.charAt: the empty string past the end.
charAt(s, i) == IF i >= 0 /\ i < Len(s) THEN <<s[i + 1]>> ELSE <<>>

\* String.prototype.charCodeAt: NaN past the end; a character is its own code.
charCodeAt(s, i) == IF i >= 0 /\ i < Len(s) THEN s[i + 1] ELSE NaN

\* String.prototype.substr(start, length), start >= 0.
substr(s, start, len) == SubSeq(s, start + 1, Min(Len(s), start + len))

\* String.prototype.substring(from, to), 0 <= from.
substring(s, from, to) == SubSeq(s, Min(from, to) + 1, Min(Len(s), Max(from, to)))

\* Lower case of one character: one character, except for U+0130, whose
\* lower case is the two characters "i", U+0307.
toLowerCaseChar(ch) ==
    CASE ch = "A" -> <<"a">>
      [] ch = "B" -> <<"b">>
      [] ch = CapIDot -> <<"i", CombDot>>
      [] OTHER -> <<ch>>

RECURSIVE toLowerCase(_)
toLowerCase(s) ==
    IF s = <<>> THEN <<>> ELSE toLowerCaseChar(Head(s)) \o toLowerCase(Tail(s))

----------------------------------------------------------------------------
(* Expectations.                                                           *)

AnyChar == [type |-> "any"]
EndOfInput == [type |-> "end"]
Literal(text) == [type |-> "literal", text |-> text]
Not(e) == [type |-> "not", expected |-> e]

\* The mapping _end applies to each variant of an inverted frame.
invertMutant(e) == Not(e)
invert(e) == IF e.type = "not" THEN e.expected ELSE Not(e)

----------------------------------------------------------------------------
(* The position cache.                                                     *)

\* The nearest filled slot below pos: the do-while of _computePosDetails.
nearestCachedMutant(c, pos) == CHOOSE p \in DOMAIN c : p = 0
nearestCached(c, pos) ==
    CHOOSE p \in DOMAIN c : p < pos /\ \A q \in DOMAIN c : q < pos => q <= p

\* One step of the scanning loop, on the character at p.
scanChar(inp, details, p) ==
    IF charCodeAt(inp, p) = LF
        THEN [line |-> details.line + 1, column |-> 1]
        ELSE [line |-> details.line, column |-> details.column + 1]

\* while (p < pos) { ...; p++ }
RECURSIVE scanLoop(_, _, _, _)
scanLoop(inp, details, p, pos) ==
    IF p < pos THEN scanLoop(inp, scanChar(inp, details, p), p + 1, pos)
    ELSE details

\* _computePosDetails: the details of pos and the cache after the call.
_computePosDetailsMutant(c, inp, pos) ==
    LET p == nearestCached(c, pos)
        details == scanLoop(inp, c[0], p, pos)
    IN  IF pos \in DOMAIN c THEN [details |-> c[pos], cache |-> c]
        ELSE [details |-> details,
              cache |-> [q \in DOMAIN c \cup {pos} |->
                            IF q = pos THEN details ELSE c[q]]]
_computePosDetails(c, inp, pos) ==
    LET p == nearestCached(c, pos)
        details == scanLoop(inp, c[p], p, pos)
    IN  IF pos \in DOMAIN c THEN [details |-> c[pos], cache |-> c]
        ELSE [details |-> details,
              cache |-> [q \in DOMAIN c \cup {pos} |->
                            IF q = pos THEN details ELSE c[q]]]

\* The indices of the characters the scanning loop of _computePosDetails
\* examines for pos: none on a cache hit, else those from the nearest filled
\* slot below pos up to pos.
scannedBy(c, pos) ==
    IF pos \in DOMAIN c THEN {} ELSE nearestCached(c, pos)..(pos - 1)

\* The opaque source tag attached to every location.
_source == "source"

\* _computeLocation: the location of [startPos, endPos) and the cache after.
_computeLocation(c, inp, startPos, endPos) ==
    LET s == _computePosDetails(c, inp, startPos)
        e == _computePosDetails(s.cache, inp, endPos)
    IN  [location |->
            [source |-> _source,
             start |-> [offset |-> startPos, line |-> s.details.line,
                        column |-> s.details.column],
             end |-> [offset |-> endPos, line |-> e.details.line,
                      column |-> e.details.column]],
         cache |-> e.cache]

----------------------------------------------------------------------------
(* The expectation stack.                                                  *)

_beginMutant(stack, off) == stack
_begin(stack, off) == Append(stack, [offset |-> off, variants |-> <<>>])

_expectMutant(stack, off, e) ==
    LET n == Len(stack)
        top == stack[n]
    IN  IF off > top.offset
            THEN [stack EXCEPT ![n] = [offset |-> off, variants |-> <<e>>]]
            ELSE [stack EXCEPT ![n].variants = Append(@, e)]
_expect(stack, off, e) ==
    LET n == Len(stack)
        top == stack[n]
    IN  IF off < top.offset THEN stack
        ELSE IF off > top.offset
            THEN [stack EXCEPT ![n] = [offset |-> off, variants |-> <<e>>]]
            ELSE [stack EXCEPT ![n].variants = Append(@, e)]

_endMutant(stack, inv) ==
    LET n == Len(stack)
        popped == stack[n]
        rest == SubSeq(stack, 1, n - 1)
        variants == IF inv
                        THEN [i \in 1..Len(popped.variants) |->
                                invert(popped.variants[i])]
                        ELSE popped.variants
    IN  [rest EXCEPT ![n - 1].variants = @ \o variants]
_end(stack, inv) ==
    LET n == Len(stack)
        popped == stack[n]
        rest == SubSeq(stack, 1, n - 1)
        top == rest[n - 1]
        variants == IF inv
                        THEN [i \in 1..Len(popped.variants) |->
                                invert(popped.variants[i])]
                        ELSE popped.variants
    IN  IF top.offset # popped.offset THEN rest
        ELSE [rest EXCEPT ![n - 1].variants = @ \o variants]

----------------------------------------------------------------------------
(* Characters by code, and the string primitives the error text is built   *)
(* with.                                                                   *)

NUL == "U+0000"             \* char code 0
SOH == "U+0001"             \* char code 1
TAB == "\t"                 \* char code 9
CR == "\r"                  \* char code 13
US == "U+001F"              \* char code 31
DEL == "U+007F"             \* char code 127

GRAVE == "U+0060"           \* char code 96

\* The printable ASCII characters, from code 32 to code 126.
Printable ==
    <<" ", "!", "\"", "#", "$", "%", "&", "'", "(", ")", "*", "+", ",",
      "-", ".", "/", "0", "1", "2", "3", "4", "5", "6", "7", "8", "9", ":",
      ";", "<", "=", ">", "?", "@", "A", "B", "C", "D", "E", "F", "G", "H",
      "I", "J", "K", "L", "M", "N", "O", "P", "Q", "R", "S", "T", "U", "V",
      "W", "X", "Y", "Z", "[", "\\", "]", "^", "_", GRAVE, "a", "b", "c",
      "d", "e", "f", "g", "h", "i", "j", "k", "l", "m", "n", "o", "p", "q",
      "r", "s", "t", "u", "v", "w", "x", "y", "z", "{", "|", "}", "~">>

Controls == {NUL, SOH, TAB, LF, CR, US, DEL}
Chars == {Printable[i] : i \in 1..Len(Printable)} \cup Controls
                \cup {CapIDot, CombDot}

\* The UTF-16 code of each character.
CodeTable ==
    [ch \in Chars |->
        CASE ch = NUL -> 0
          [] ch = SOH -> 1
          [] ch = TAB -> 9
          [] ch = LF -> 10
          [] ch = CR -> 13
          [] ch = US -> 31
          [] ch = DEL -> 127
          [] ch = CapIDot -> 304
          [] ch = CombDot -> 775
          [] OTHER -> 31 + CHOOSE i \in 1..Len(Printable) : Printable[i] = ch]
code(ch) == CodeTable[ch]

\* Number.prototype.toString(16)
HexDigits ==
    <<"0", "1", "2", "3", "4", "5", "6", "7", "8", "9", "a", "b", "c", "d",
      "e", "f">>
RECURSIVE toString16(_)
toString16(n) ==
    IF n < 16 THEN <<HexDigits[n + 1]>>
    ELSE toString16(n \div 16) \o <<HexDigits[(n % 16) + 1]>>

\* String.prototype.toUpperCase, on hexadecimal digits.
toUpperCaseChar(ch) ==
    CASE ch = "a" -> "A"
      [] ch = "b" -> "B"
      [] ch = "c" -> "C"
      [] ch = "d" -> "D"
      [] ch = "e" -> "E"
      [] ch = "f" -> "F"
      [] OTHER -> ch
toUpperCase(s) == [i \in 1..Len(s) |-> toUpperCaseChar(s[i])]

\* String.prototype.replace(/[class]/g, by): every character that by is
\* defined on is replaced with what by gives for it.
RECURSIVE replace(_, _)
replace(s, by) ==
    IF s = <<>> THEN <<>>
    ELSE (IF Head(s) \in DOMAIN by THEN by[Head(s)] ELSE <<Head(s)>>)
            \o replace(Tail(s), by)

\* The order of strings by UTF-16 code units, as the default sort compares.
RECURSIVE before(_, _)
before(s, t) ==
    IF t = <<>> THEN FALSE
    ELSE IF s = <<>> THEN TRUE
    ELSE IF code(Head(s)) # code(Head(t)) THEN code(Head(s)) < code(Head(t))
    ELSE before(Tail(s), Tail(t))

\* Array.prototype.sort() of an array of strings: x goes behind the elements
\* that are not after it.
insert(sorted, x) ==
    LET k == Cardinality({i \in 1..Len(sorted) : ~before(x, sorted[i])})
    IN  SubSeq(sorted, 1, k) \o <<x>> \o SubSeq(sorted, k + 1, Len(sorted))
RECURSIVE sortFrom(_, _)
sortFrom(sorted, rest) ==
    IF rest = <<>> THEN sorted
    ELSE sortFrom(insert(sorted, Head(rest)), Tail(rest))
sortMutant(d) == d
sort(d) == sortFrom(<<>>, d)

\* Array.prototype.join(separator)
RECURSIVE join(_, _)
join(a, separator) ==
    IF a = <<>> THEN <<>>
    ELSE IF Len(a) = 1 THEN a[1]
    ELSE a[1] \o separator \o join(Tail(a), separator)

\* The coercion of an array to a string: its elements joined with ",".
toString(a) == join(a, <<",">>)

\* The truthiness of a value: null, undefined and the empty string are not.
truthy(v) == v.t = "string" /\ v.s # <<>>

----------------------------------------------------------------------------
(* The description of a syntax error.                                      *)

Rule(description) == [type |-> "rule", description |-> description]
User(description) == [type |-> "user", description |-> description]
Class(parts, inverted) ==
    [type |-> "class", parts |-> parts, inverted |-> inverted]
\* A part of a class: a character, or the array of the two ends of a range.
CharPart(ch) == Str(<<ch>>)
RangePart(low, high) == [t |-> "array", items |-> <<<<low>>, <<high>>>>]
isArray(v) == v.t = "array"

AnyCharacterText ==
    <<"a", "n", "y", " ", "c", "h", "a", "r", "a", "c", "t", "e", "r">>
EndOfInputText ==
    <<"e", "n", "d", " ", "o", "f", " ", "i", "n", "p", "u", "t">>
NotText ==
    <<"n", "o", "t", " ">>
OrText ==
    <<" ", "o", "r", " ">>
CommaText ==
    <<",", " ">>
CommaOrText ==
    <<",", " ", "o", "r", " ">>
UndefinedText ==
    <<"u", "n", "d", "e", "f", "i", "n", "e", "d">>
ExpectedText ==
    <<"E", "x", "p", "e", "c", "t", "e", "d", " ">>
ButText ==
    <<" ", "b", "u", "t", " ">>
FoundText ==
    <<" ", "f", "o", "u", "n", "d", ".">>

hex(ch) == toUpperCase(toString16(code(ch)))

\* The two replacements that end literalEscape and classEscape.
LowControls == {ch \in Chars : code(ch) \in 0..15}
HighControls == {ch \in Chars : code(ch) \in 16..31 \cup 127..159}
escapeControls(s) ==
    replace(replace(s, [ch \in LowControls |-> <<"\\", "x", "0">> \o hex(ch)]),
            [ch \in HighControls |-> <<"\\", "x">> \o hex(ch)])

\* The replacements of NUL, tab, newline and carriage return.
escapeNamed(s) ==
    replace(replace(replace(replace(s,
        [ch \in {NUL} |-> <<"\\", "0">>]),
        [ch \in {TAB} |-> <<"\\", "t">>]),
        [ch \in {LF} |-> <<"\\", "n">>]),
        [ch \in {CR} |-> <<"\\", "r">>])

literalEscape(s) ==
    escapeControls(escapeNamed(
        replace(replace(s,
            [ch \in {"\\"} |-> <<"\\", "\\">>]),
            [ch \in {"\""} |-> <<"\\", "\"">>])))

classEscape(s) ==
    escapeControls(escapeNamed(
        replace(replace(replace(replace(s,
            [ch \in {"\\"} |-> <<"\\", "\\">>]),
            [ch \in {"]"} |-> <<"\\", "]">>]),
            [ch \in {"^"} |-> <<"\\", "^">>]),
            [ch \in {"-"} |-> <<"\\", "-">>])))

\* DESCRIBE_EXPECTATION_FNS.class: the callback of parts.map
describePart(part) ==
    IF isArray(part)
        THEN classEscape(part.items[1]) \o <<"-">> \o classEscape(part.items[2])
        ELSE classEscape(part.s)

\* DESCRIBE_EXPECTATION_FNS.class
describeClass(expectation) ==
    LET escapedParts ==
            [i \in 1..Len(expectation.parts) |->
                describePart(expectation.parts[i])]
    IN  <<"[">> \o (IF expectation.inverted THEN <<"^">> ELSE <<>>)
            \o toString(escapedParts) \o <<"]">>

RECURSIVE describeExpectation(_)
describeExpectation(expectation) ==
    CASE expectation.type = "literal" ->
            <<"\"">> \o literalEscape(expectation.text) \o <<"\"">>
      [] expectation.type = "class" -> describeClass(expectation)
      [] expectation.type = "any" -> AnyCharacterText
      [] expectation.type = "end" -> EndOfInputText
      [] expectation.type = "rule" -> expectation.description
      [] expectation.type = "user" -> expectation.description
      [] expectation.type = "not" ->
            NotText \o describeExpectation(expectation.expected)

\* The loop of describeExpected that drops a description equal to the one
\* before it: i and j are the indices of the code, the array starts at 0.
RECURSIVE dedupLoop(_, _, _)
dedupLoop(descriptions, j, i) ==
    IF i < Len(descriptions)
        THEN IF descriptions[i] # descriptions[i + 1]
                THEN dedupLoop(
                        [descriptions EXCEPT ![j + 1] = descriptions[i + 1]],
                        j + 1, i + 1)
                ELSE dedupLoop(descriptions, j, i + 1)
        ELSE SubSeq(descriptions, 1, j)
dedup(descriptions) ==
    IF Len(descriptions) > 0 THEN dedupLoop(descriptions, 1, 1)
    ELSE descriptions

\* The descriptions describeExpected works on once sorted and deduplicated.
sortedDescriptions(expectations) ==
    dedup(sort([i \in 1..Len(expectations) |->
                    describeExpectation(expectations[i])]))

describeExpected(expectations) ==
    LET descriptions == sortedDescriptions(expectations)
        n == Len(descriptions)
    IN  CASE n = 1 -> descriptions[1]
          [] n = 2 -> descriptions[1] \o OrText \o descriptions[2]
          [] OTHER ->
                join(SubSeq(descriptions, 1, n - 1), CommaText)
                    \o CommaOrText
                    \o (IF n = 0 THEN UndefinedText ELSE descriptions[n])

describeFound(found) ==
    IF truthy(found) THEN <<"\"">> \o literalEscape(found.s) \o <<"\"">>
    ELSE EndOfInputText

\* SyntaxError.buildMessage
buildMessage(expectations, found) ==
    ExpectedText \o describeExpected(expectations) \o ButText
        \o describeFound(found) \o FoundText

\* new SyntaxError(message, expected, found, location)
SyntaxError(message, expectations, found, location) ==
    [name |-> "SyntaxError", message |-> message, expected |-> expectations,
     found |-> found, location |-> location]

----------------------------------------------------------------------------
(* Errors.                                                                 *)

NoError == [name |-> "none"]
NoLocation == [source |-> "none"]

buildStructuredError(exp, found, location) ==
    SyntaxError(buildMessage(exp, found), exp, found, location)

\* buildError: the error of the root frame and the cache after the call.
buildErrorMutant(stack, inp, c) ==
    LET root == stack[1]
        failPos == root.offset
        l == _computeLocation(c, inp, failPos, failPos)
    IN  [error |-> buildStructuredError(
                        root.variants,
                        IF failPos < Len(inp)
                            THEN Str(charAt(inp, failPos)) ELSE Null,
                        l.location),
         cache |-> l.cache]
buildError(stack, inp, c) ==
    LET root == stack[1]
        failPos == root.offset
        l == IF failPos < Len(inp)
                THEN _computeLocation(c, inp, failPos, failPos + 1)
                ELSE _computeLocation(c, inp, failPos, failPos)
    IN  [error |-> buildStructuredError(
                        root.variants,
                        IF failPos < Len(inp)
                            THEN Str(charAt(inp, failPos)) ELSE Null,
                        l.location),
         cache |-> l.cache]

\* text()
text(inp, m, off) == substring(inp, m, off)

\* expected(description, location): the error thrown and the cache after the
\* call; location is NoValue when the argument is left out.
raiseExpectedMutant(inp, m, off, c, description, location) ==
    LET l == _computeLocation(c, inp, m, off)
    IN  [error |-> buildStructuredError(<<User(description)>>,
                                        Str(text(inp, m, off)), l.location),
         cache |-> l.cache]
raiseExpected(inp, m, off, c, description, location) ==
    LET l == _computeLocation(c, inp, m, off)
    IN  IF location # NoValue
            THEN [error |-> buildStructuredError(<<User(description)>>,
                                                 Str(text(inp, m, off)),
                                                 location),
                  cache |-> c]
            ELSE [error |-> buildStructuredError(<<User(description)>>,
                                                 Str(text(inp, m, off)),
                                                 l.location),
                  cache |-> l.cache]

\* error(message, location), likewise.
raiseError(inp, m, off, c, message, location) ==
    LET l == _computeLocation(c, inp, m, off)
    IN  IF location # NoValue
            THEN [error |-> SyntaxError(message, Null, Null, location),
                  cache |-> c]
            ELSE [error |-> SyntaxError(message, Null, Null, l.location),
                  cache |-> l.cache]

----------------------------------------------------------------------------
(* The primitive matchers: the offset after the call and the value         *)
(* returned.                                                               *)

NoCall == [op |-> "none"]

matchAny(inp, off) ==
    IF Len(inp) > off
        THEN [offset |-> off + 1, ret |-> Str(charAt(inp, off))]
        ELSE [offset |-> off, ret |-> FAILED]

\* A character class is a set of characters, possibly inverted; the regular
\* expression compiled from it accepts one-character strings only.
test(class, s) == Len(s) = 1 /\ ((s[1] \in class.chars) # class.inverted)

matchClass(inp, off, class) ==
    LET chr == charAt(inp, off)
    IN  IF test(class, chr)
            THEN [offset |-> off + 1, ret |-> Str(chr)]
            ELSE [offset |-> off, ret |-> FAILED]

matchChar(inp, off, char, charCode) ==
    IF charCodeAt(inp, off) = charCode
        THEN [offset |-> off + 1, ret |-> Str(<<char>>)]
        ELSE [offset |-> off, ret |-> FAILED]

matchLiteral(inp, off, literal) ==
    LET len == Len(literal)
        txt == substr(inp, off, len)
    IN  IF txt = literal
            THEN [offset |-> off + len, ret |-> Str(literal)]
            ELSE [offset |-> off, ret |-> FAILED]

matchLiteralICMutant(inp, off, literal) ==
    LET len == Len(literal)
        txt == substr(inp, off, len)
    IN  IF toLowerCase(txt) = literal
            THEN [offset |-> off + len, ret |-> Str(literal)]
            ELSE [offset |-> off, ret |-> FAILED]
matchLiteralIC(inp, off, literal) ==
    LET len == Len(literal)
        txt == substr(inp, off, len)
    IN  IF toLowerCase(txt) = literal
            THEN [offset |-> off + len, ret |-> Str(txt)]
            ELSE [offset |-> off, ret |-> FAILED]

----------------------------------------------------------------------------
(* Construction.                                                           *)

\* The history of the _expect calls: the greatest offset any of them was made
\* at (-1 before the first), and the set of expectations passed at it.
NoCalls == [offset |-> -1, passed |-> {}]
Record(h, off, e) ==
    IF off > h.offset THEN [offset |-> off, passed |-> {e}]
    ELSE IF off = h.offset THEN [h EXCEPT !.passed = @ \cup {e}]
    ELSE h

NoLog == [born |-> -1, log |-> <<>>]

\* The history of the line/column scans: how many times the character at each
\* index was examined (times[i + 1] for index i), the greatest position asked
\* for so far, and whether no position was asked for below an earlier one.
NoScan(inp) == [times |-> [i \in 1..Len(inp) |-> 0], high |-> 0,
                ordered |-> TRUE]
Count(h, c, pos) ==
    [times |-> [i \in DOMAIN h.times |->
                    h.times[i]
                        + IF (i - 1) \in scannedBy(c, pos) THEN 1 ELSE 0],
     high |-> Max(h.high, pos),
     ordered |-> h.ordered /\ pos >= h.high]
\* The same over _computeLocation, which asks for startPos and then endPos.
CountLocation(h, c, inp, startPos, endPos) ==
    Count(Count(h, c, startPos), _computePosDetails(c, inp, startPos).cache,
          endPos)
\* The same over buildError.
CountError(h, stack, inp, c) ==
    LET failPos == stack[1].offset
    IN  CountLocation(h, c, inp, failPos,
                      IF failPos < Len(inp) THEN failPos + 1 ELSE failPos)

\* The history of a tracer: the last event traced, the indentation and the
\* text of the line printed for it, the error thrown for it, the level before
\* it, the rules entered and not yet left (each with the indentation of its
\* rule.enter line), and the entry of the rule the event has left.
NoLine == [indent |-> -1, text |-> <<>>]
NoTrace ==
    [event |-> [type |-> <<>>], printed |-> NoLine, thrown |-> NoError,
     before |-> 0, open |-> <<>>, closed |-> NoLine]

\* new DefaultTracer()
DefaultTracer ==
    /\ indentLevel = 0
    /\ traced = NoTrace

\* new ParserState(input, source, offset, line, column)
constructor(inp, off, line, column) ==
    /\ input = inp
    /\ offset = off
    /\ mark = off
    /\ expected = <<>>
    /\ cache = [p \in {0} |-> [line |-> line, column |-> column]]
    /\ pc = "ready"
    /\ ret = NoValue
    /\ result = NoValue
    /\ err = NoError
    /\ loc = NoLocation
    /\ base = [offset |-> off, line |-> line, column |-> column]
    /\ call = NoCall
    /\ calls = NoCalls
    /\ topLog = NoLog
    /\ twin = <<>>
    /\ scanned = NoScan(inp)

----------------------------------------------------------------------------
(* parse() and the rule function it calls.  The rule function is generated *)
(* code: it calls the matchers, moves the offset back when an alternative   *)
(* fails, and brackets its lookaheads in _begin/_end.                       *)

MainAlphabet == {"a"}
MainExpectations == {AnyChar, Literal(<<"a">>)}
MainClasses == {[chars |-> {"a"}, inverted |-> FALSE],
                [chars |-> {"a"}, inverted |-> TRUE]}
RuleResults == {FAILED, Str(<<"r">>)}

Live == pc \in {"ready", "rule"}

TotalVariants(stack) ==
    LET RECURSIVE sum(_)
        sum(i) == IF i = 0 THEN 0 ELSE Len(stack[i].variants) + sum(i - 1)
    IN  sum(Len(stack))

\* The history variables that a step sets according to what is observed.
history == <<call, topLog, twin>>

\* parse(), up to the call of the rule function.
ParseStep ==
    /\ pc = "ready"
    /\ expected' = _begin(expected, offset)
    /\ pc' = "rule"
    /\ UNCHANGED <<input, offset, mark, cache, ret, result, err, loc, base,
                   calls>>
    /\ UNCHANGED <<scanned, indentLevel, traced>>

\* The rule function calls _begin.
BeginStep ==
    /\ pc = "rule"
    /\ Len(expected) < MaxDepth
    /\ expected' = _begin(expected, offset)
    /\ UNCHANGED <<input, offset, mark, cache, pc, ret, result, err, loc,
                   base, calls>>
    /\ UNCHANGED <<scanned, indentLevel, traced>>

\* The rule function calls _end(inv), closing a frame it opened.
EndStep(inv) ==
    /\ pc = "rule"
    /\ Len(expected) >= 2
    /\ expected' = _end(expected, inv)
    /\ UNCHANGED <<input, offset, mark, cache, pc, ret, result, err, loc,
                   base, calls>>
    /\ UNCHANGED <<scanned, indentLevel, traced>>

\* The rule function calls _expect(e).
ExpectStepMutant(e) ==
    /\ pc = "rule"
    /\ expected' = [expected EXCEPT ![Len(expected)] =
                        [offset |-> offset, variants |-> <<e>>]]
    /\ calls' = Record(calls, offset, e)
    /\ UNCHANGED <<input, offset, mark, cache, pc, ret, result, err, loc,
                   base>>
    /\ UNCHANGED <<scanned, indentLevel, traced>>
ExpectStep(e) ==
    /\ pc = "rule"
    /\ expected' = _expect(expected, offset, e)
    /\ calls' = Record(calls, offset, e)
    /\ UNCHANGED <<input, offset, mark, cache, pc, ret, result, err, loc,
                   base>>
    /\ UNCHANGED <<scanned, indentLevel, traced>>

Parse == ParseStep /\ UNCHANGED history

Begin == BeginStep /\ UNCHANGED history

EndFrame(inv) == EndStep(inv) /\ UNCHANGED history

Expect(e) ==
    /\ TotalVariants(expected) < MaxVariants
    /\ ExpectStep(e)
    /\ UNCHANGED history

\* What the matchers can return at an offset, over all their arguments.
MatcherResults(inp, off, alphabet, classes) ==
    {matchAny(inp, off)}
    \cup {matchClass(inp, off, c) : c \in classes}
    \cup {matchChar(inp, off, ch, ch) : ch \in alphabet}
    \cup {matchLiteral(inp, off, l) : l \in Strings(alphabet, MaxLen)}
    \cup {matchLiteralIC(inp, off, l) : l \in Strings(alphabet, MaxLen)}

\* The rule function calls a matcher that succeeds, and drops its value.
Consume ==
    /\ pc = "rule"
    /\ \E m \in MatcherResults(input, offset, MainAlphabet, MainClasses) :
        /\ m.ret # FAILED
        /\ m.offset # offset
        /\ offset' = m.offset
    /\ UNCHANGED <<input, mark, expected, cache, pc, ret, result, err, loc,
                   base, calls>>
    /\ UNCHANGED <<scanned, indentLevel, traced>>
    /\ UNCHANGED history

\* The rule function abandons an alternative: this._offset = saved.
Backtrack(o) ==
    /\ pc = "rule"
    /\ o < offset
    /\ offset' = o
    /\ UNCHANGED <<input, mark, expected, cache, pc, ret, result, err, loc,
                   base, calls>>
    /\ UNCHANGED <<scanned, indentLevel, traced>>
    /\ UNCHANGED history

\* The rule function returns res with its frames closed, and parse() ends:
\* it returns res, or throws what buildError builds.
ReturnNoEnd(res) ==
    /\ pc = "rule"
    /\ Len(expected) = 1
    /\ ret' = res
    /\ IF res # FAILED /\ offset = Len(input)
        THEN /\ pc' = "returned"
             /\ result' = res
             /\ UNCHANGED <<expected, cache, err, calls, scanned>>
        ELSE LET built == buildError(expected, input, cache)
             IN  /\ pc' = "thrown"
                 /\ err' = built.error
                 /\ cache' = built.cache
                 /\ scanned' = CountError(scanned, expected, input, cache)
                 /\ UNCHANGED <<expected, result, calls>>
    /\ UNCHANGED <<input, offset, mark, loc, base>>
    /\ UNCHANGED <<indentLevel, traced>>
    /\ UNCHANGED history
ReturnAlways(res) ==
    /\ pc = "rule"
    /\ Len(expected) = 1
    /\ ret' = res
    /\ IF res # FAILED
        THEN /\ pc' = "returned"
             /\ result' = res
             /\ UNCHANGED <<expected, cache, err, calls, scanned>>
        ELSE LET built == buildError(expected, input, cache)
             IN  /\ pc' = "thrown"
                 /\ err' = built.error
                 /\ cache' = built.cache
                 /\ scanned' = CountError(scanned, expected, input, cache)
                 /\ UNCHANGED <<expected, result, calls>>
    /\ UNCHANGED <<input, offset, mark, loc, base>>
    /\ UNCHANGED <<indentLevel, traced>>
    /\ UNCHANGED history
Return(res) ==
    /\ pc = "rule"
    /\ Len(expected) = 1
    /\ ret' = res
    /\ IF res # FAILED /\ offset = Len(input)
        THEN /\ pc' = "returned"
             /\ result' = res
             /\ UNCHANGED <<expected, cache, err, calls, scanned>>
        ELSE LET atEnd == res # FAILED /\ offset < Len(input)
                 stack == IF atEnd THEN _expect(expected, offset, EndOfInput)
                          ELSE expected
                 built == buildError(stack, input, cache)
             IN  /\ pc' = "thrown"
                 /\ expected' = stack
                 /\ err' = built.error
                 /\ cache' = built.cache
                 /\ scanned' = CountError(scanned, stack, input, cache)
                 /\ calls' = IF atEnd THEN Record(calls, offset, EndOfInput)
                             ELSE calls
                 /\ UNCHANGED result
    /\ UNCHANGED <<input, offset, mark, loc, base>>
    /\ UNCHANGED <<indentLevel, traced>>
    /\ UNCHANGED history

Init ==
    /\ \E inp \in Strings(MainAlphabet, MaxLen) : constructor(inp, 0, 1, 1)
    /\ DefaultTracer

Next ==
    \/ Parse
    \/ Begin
    \/ \E inv \in BOOLEAN : EndFrame(inv)
    \/ \E e \in MainExpectations : Expect(e)
    \/ Consume
    \/ \E o \in 0..MaxLen : Backtrack(o)
    \/ \E res \in RuleResults : Return(res)

Spec == Init /\ [][Next]_vars

\* The set of the elements of a sequence.
Range(seq) == {seq[i] : i \in 1..Len(seq)}

----------------------------------------------------------------------------
(* Claims about parse().                                                   *)

\* An expectation without the "not" wrappers an inverted _end put around it.
RECURSIVE Bare(_)
Bare(e) == IF e.type = "not" THEN Bare(e.expected) ELSE e

\* C1 (as claimed): when the rule function has called _expect and returned
\* FAILED, the error parse() throws is built from a root frame whose offset
\* is the greatest offset _expect was called at, and whose variants are the
\* expectations passed to _expect at that offset (in the polarity the
\* enclosing lookaheads give them) and no others.
C1_FurthestFailureWins ==
    (pc = "thrown" /\ ret = FAILED /\ calls.offset >= 0) =>
        /\ expected[1].offset = calls.offset
        /\ err.location.start.offset = calls.offset
        /\ {Bare(v) : v \in Range(err.expected)} = calls.passed

\* C2 (as claimed): when the rule function returns a value with input left,
\* the error parse() throws lists an expectation of type "end".
C2_LeftoverAlwaysExpectsEnd ==
    (pc = "thrown" /\ ret # FAILED /\ offset < Len(input)) =>
        EndOfInput \in Range(err.expected)

\* C2 (amended): when the rule function returns a value with input left, and
\* the root frame holds no offset beyond the current one, the error parse()
\* throws lists an expectation of type "end".
C2_LeftoverExpectsEnd ==
    (pc = "thrown" /\ ret # FAILED /\ offset < Len(input)
        /\ expected[1].offset <= offset) =>
        /\ EndOfInput \in Range(err.expected)
        /\ err.location.start.offset = offset

\* C2 witness: input was left after expectations had been recorded, and the
\* error lists "end" after them.
C2_Witness ==
    /\ pc = "thrown" /\ ret # FAILED /\ offset < Len(input)
    /\ expected[1].offset <= offset
    /\ Len(err.expected) >= 2
    /\ err.expected[Len(err.expected)] = EndOfInput

\* C3: parse() returns exactly when the rule function's result is not FAILED
\* and the offset is the input's length; it then returns that result and
\* builds no error.  Otherwise it throws the error built from the root frame
\* and returns nothing.
C3_ParseOutcome ==
    /\ pc = "returned" =>
        /\ ret # FAILED /\ offset = Len(input)
        /\ result = ret
        /\ err = NoError
    /\ pc = "thrown" =>
        /\ ret = FAILED \/ offset # Len(input)
        /\ result = NoValue
        /\ err.name = "SyntaxError"
        /\ err.expected = expected[1].variants
        /\ err.location.start.offset = expected[1].offset
    /\ pc \in {"ready", "rule"} => result = NoValue /\ err = NoError

\* C3 witness: parse() has returned the rule function's result after the
\* rule function recorded expectations and consumed the input.
C3_Witness ==
    /\ pc = "returned" /\ result = Str(<<"r">>)
    /\ offset > 0 /\ calls.offset >= 0

\* C10: _end(invert) removes the top frame only.  When the removed frame's
\* offset is the new top's, its variants are appended in order to the new
\* top's (each wrapped in "not", or unwrapped when it is a "not", if invert);
\* otherwise the new top's variants stay.  The new top's offset and the
\* frames below stay.
C10_EndPopsAndMerges ==
    [][\A inv \in BOOLEAN : EndFrame(inv) =>
        LET n == Len(expected)
            popped == expected[n]
            passed == [i \in 1..Len(popped.variants) |->
                        LET v == popped.variants[i]
                        IN  IF ~inv THEN v
                            ELSE IF v.type = "not" THEN v.expected
                            ELSE [type |-> "not", expected |-> v]]
        IN  /\ Len(expected') = n - 1
            /\ \A i \in 1..(n - 2) : expected'[i] = expected[i]
            /\ expected'[n - 1].offset = expected[n - 1].offset
            /\ expected'[n - 1].variants =
                IF popped.offset = expected[n - 1].offset
                    THEN expected[n - 1].variants \o passed
                    ELSE expected[n - 1].variants]_vars

\* C10 witness: the root frame holds a "not" that only an inverted merge can
\* have put there (the rule function passes none), after its own variant.
C10_Witness ==
    /\ pc = "rule" /\ Len(expected) = 1
    /\ Len(expected[1].variants) >= 2
    /\ expected[1].variants[1].type # "not"
    /\ expected[1].variants[2].type = "not"

----------------------------------------------------------------------------
(* One frame under _expect: the calls made on the frame on top of the      *)
(* stack are logged, from the frame's creation on, while the rule function *)
(* moves the offset forth and back.                                        *)

LoggedParse ==
    /\ ParseStep
    /\ topLog' = [born |-> offset, log |-> <<>>]
    /\ UNCHANGED <<call, twin>>

\* A new frame is opened over frames that hold nothing yet.
LoggedBegin ==
    /\ topLog.log = <<>>
    /\ BeginStep
    /\ topLog' = [born |-> offset, log |-> <<>>]
    /\ UNCHANGED <<call, twin>>

LoggedExpect(e) ==
    /\ Len(topLog.log) < MaxLog
    /\ ExpectStep(e)
    /\ topLog' = [topLog EXCEPT
                    !.log = Append(@, [offset |-> offset, expected |-> e])]
    /\ UNCHANGED <<call, twin>>

NextExpect ==
    \/ LoggedParse
    \/ LoggedBegin
    \/ \E e \in MainExpectations : LoggedExpect(e)
    \/ Consume
    \/ \E o \in 0..MaxLen : Backtrack(o)

SpecExpect == Init /\ [][NextExpect]_vars

\* The greatest element of a non-empty set of numbers.
Greatest(S) == CHOOSE m \in S : \A x \in S : x <= m

\* The entries of a log made at offset m, in order.
LoggedAt(log, m) == SelectSeq(log, LAMBDA c : c.offset = m)

\* C8: for the frame on top, after any _expect calls and offset changes, the
\* frame's offset is the greatest of its creation offset and the offsets
\* _expect was called at, and its variants are the expectations passed at
\* that offset, in call order, and nothing passed at a lower offset.
C8_ExpectMonotonic ==
    pc = "rule" =>
        LET top == expected[Len(expected)]
            m == Greatest({topLog.born}
                    \cup {topLog.log[i].offset : i \in 1..Len(topLog.log)})
            at == LoggedAt(topLog.log, m)
        IN  /\ top.offset = m
            /\ top.variants = [i \in 1..Len(at) |-> at[i].expected]

\* C8 witness: the frame holds two variants in call order, after a call at
\* a lower offset was made between them and the frame's offset had risen.
C8_Witness ==
    /\ pc = "rule"
    /\ Len(topLog.log) >= 4
    /\ topLog.log[1].offset < topLog.log[2].offset
    /\ topLog.log[3].offset < topLog.log[2].offset
    /\ topLog.log[4].offset = topLog.log[2].offset
    /\ topLog.log[4].expected # topLog.log[2].expected
    /\ expected[Len(expected)].variants =
        <<topLog.log[2].expected, topLog.log[4].expected>>

----------------------------------------------------------------------------
(* Double inversion.  A list of expectations recorded in the top frame of  *)
(* two nested lookaheads is passed up through two successive _end(true)    *)
(* calls in `expected`, and through two _end(false) calls in `twin`, which *)
(* is driven alike otherwise.  The offset never moves, so all frames have  *)
(* the same offset.                                                        *)

RECURSIVE Nest(_, _)
Nest(e, k) == IF k = 0 THEN e ELSE Not(Nest(e, k - 1))

RECURSIVE NotDepth(_)
NotDepth(e) == IF e.type = "not" THEN 1 + NotDepth(e.expected) ELSE 0

NestedExpectations == {Nest(e, k) : e \in MainExpectations, k \in 0..MaxNot}

EndCalled == [op |-> "_end"]

TwinParse ==
    /\ ParseStep
    /\ twin' = _begin(twin, offset)
    /\ UNCHANGED <<call, topLog>>

\* The two lookahead frames are opened over the receiving frame.
TwinBegin ==
    /\ call = NoCall
    /\ Len(expected) < 3
    /\ BeginStep
    /\ twin' = _begin(twin, offset)
    /\ UNCHANGED <<call, topLog>>

\* The list is recorded in the inner lookahead's frame.
TwinExpect(e) ==
    /\ call = NoCall
    /\ Len(expected) = 3
    /\ TotalVariants(twin) < MaxVariants
    /\ ExpectStep(e)
    /\ twin' = _expect(twin, offset, e)
    /\ UNCHANGED <<call, topLog>>

\* _end(true) on the stack, _end(false) on its twin; twice in succession.
TwinEnd ==
    /\ Len(expected) = 3 \/ call = EndCalled
    /\ EndStep(TRUE)
    /\ twin' = _end(twin, FALSE)
    /\ call' = IF call = NoCall THEN EndCalled ELSE NoCall
    /\ UNCHANGED topLog

NextInvert ==
    \/ TwinParse
    \/ TwinBegin
    \/ \E e \in NestedExpectations : TwinExpect(e)
    \/ TwinEnd

SpecInvert == Init /\ [][NextInvert]_vars

\* C9 (as claimed): a list of expectations of any type, "not" nested to any
\* depth, passed up through two _end(true) calls leaves in the receiving
\* frame what two _end(false) calls leave.
C9_DoubleInversionCancels ==
    (pc = "rule" /\ Len(expected) = 1 /\ call = NoCall) => expected = twin

\* C9 (amended): the same, for lists whose expectations are a "not" at most
\* one deep.
C9_DoubleInversionCancelsShallow ==
    (pc = "rule" /\ Len(expected) = 1 /\ call = NoCall
        /\ \A v \in Range(twin[1].variants) : NotDepth(v) <= 1) =>
        expected = twin

\* C9 witness: a list of a plain expectation and a "not" has been passed up
\* through the two calls.
C9_Witness ==
    /\ pc = "rule" /\ Len(expected) = 1 /\ call = NoCall
    /\ Len(twin[1].variants) = 2
    /\ NotDepth(twin[1].variants[1]) = 0
    /\ NotDepth(twin[1].variants[2]) = 1
    /\ expected = twin

----------------------------------------------------------------------------
(* The matchers, called with every argument at every offset of every input. *)

MatchAlphabet == {"a", "A", CapIDot}
MatchClasses == {[chars |-> {"a", CapIDot}, inverted |-> FALSE],
                 [chars |-> {"a", "A"}, inverted |-> TRUE]}

\* The literals: of either casing, and the lower case of U+0130.
MatchLiterals ==
    Strings({"a", "A"}, MaxText) \cup {toLowerCase(<<CapIDot>>)}

\* A matcher has returned m: the offset and the returned value are set, and
\* the call is noted.
Matched(op, literal, m) ==
    /\ Live
    /\ offset' = m.offset
    /\ ret' = m.ret
    /\ call' = [op |-> op, at |-> offset, literal |-> literal]
    /\ UNCHANGED <<input, mark, expected, cache, pc, result, err, loc, base,
                   calls, topLog, twin>>
    /\ UNCHANGED <<scanned, indentLevel, traced>>

MatchAny == Matched("matchAny", <<>>, matchAny(input, offset))

MatchClass(class) ==
    Matched("matchClass", <<>>, matchClass(input, offset, class))

\* The generated code passes a character and its own code.
MatchChar(ch) ==
    Matched("matchChar", <<ch>>, matchChar(input, offset, ch, ch))

MatchLiteral(literal) ==
    Matched("matchLiteral", literal, matchLiteral(input, offset, literal))

MatchLiteralIC(literal) ==
    Matched("matchLiteralIC", literal, matchLiteralIC(input, offset, literal))

\* The generated code moves the offset: this._offset = o.
Seek(o) ==
    /\ Live
    /\ o \in 0..Len(input)
    /\ o # offset
    /\ offset' = o
    /\ call' = NoCall
    /\ UNCHANGED <<input, mark, expected, cache, pc, ret, result, err, loc,
                   base, calls, topLog, twin>>
    /\ UNCHANGED <<scanned, indentLevel, traced>>

\* parse() is entered, so that the matchers run with a frame on the stack.
MatchParse ==
    /\ ParseStep
    /\ call' = NoCall
    /\ UNCHANGED <<topLog, twin>>

InitMatch ==
    /\ \E inp \in Strings(MatchAlphabet, MaxText) : constructor(inp, 0, 1, 1)
    /\ DefaultTracer

NextMatch ==
    \/ MatchParse
    \/ MatchAny
    \/ \E class \in MatchClasses : MatchClass(class)
    \/ \E ch \in MatchAlphabet : MatchChar(ch)
    \/ \E literal \in MatchLiterals : MatchLiteral(literal)
    \/ \E literal \in MatchLiterals : MatchLiteralIC(literal)
    \/ \E o \in 0..MaxText : Seek(o)

SpecMatch == InitMatch /\ [][NextMatch]_vars

\* C4 (as claimed): each matcher, called at an offset within the input,
\* returns FAILED and leaves the offset, or returns the matched text and
\* advances the offset by the length of that text; the mark, the frame stack
\* and the position cache stay.
C4_MatcherAdvancesByText ==
    [][(/\ offset <= Len(input)
        /\ \/ MatchAny
           \/ \E class \in MatchClasses : MatchClass(class)
           \/ \E ch \in MatchAlphabet : MatchChar(ch)
           \/ \E literal \in MatchLiterals :
                MatchLiteral(literal) \/ MatchLiteralIC(literal))
        =>
        /\ \/ ret' = FAILED /\ offset' = offset
           \/ /\ ret'.t = "string"
              /\ offset' = offset + Len(ret'.s)
              /\ ret'.s = SubSeq(input, offset + 1, offset')
        /\ UNCHANGED <<mark, expected, cache>>]_vars

\* Two strings are equal when case is ignored.
EqualIgnoringCase(s, t) == toLowerCase(s) = toLowerCase(t)

\* C5 (as claimed): for a pattern of any letter casing, matchLiteralIC
\* succeeds exactly when the input substring of the pattern's length at the
\* offset equals the pattern with case ignored; it then returns that
\* substring as it is in the input and advances by the pattern's length.
C5_MatchesAnyCasing ==
    call.op = "matchLiteralIC" =>
        LET span == substr(input, call.at, Len(call.literal))
        IN  /\ (ret # FAILED) <=> EqualIgnoringCase(span, call.literal)
            /\ ret # FAILED =>
                /\ ret = Str(span)
                /\ offset = call.at + Len(call.literal)

\* C5 (amended): the same, for a pattern that is in lower case already (the
\* pattern is compared as it is, only the input is lower-cased).
C5_MatchesLowerCasePattern ==
    (call.op = "matchLiteralIC" /\ toLowerCase(call.literal) = call.literal) =>
        LET span == substr(input, call.at, Len(call.literal))
        IN  /\ (ret # FAILED) <=> EqualIgnoringCase(span, call.literal)
            /\ ret # FAILED =>
                /\ ret = Str(span)
                /\ offset = call.at + Len(call.literal)
            /\ ret = FAILED => offset = call.at

\* C5 witness: a lower-case pattern has matched input of another casing past
\* the start of the input, and the input's text was returned.
C5_Witness ==
    /\ call.op = "matchLiteralIC"
    /\ call.at > 0
    /\ toLowerCase(call.literal) = call.literal
    /\ ret # FAILED
    /\ ret.s # call.literal
    /\ offset <= Len(input)
    /\ ret.s = SubSeq(input, call.at + 1, offset)

----------------------------------------------------------------------------
(* Location queries: location() is called with the mark and the offset at  *)
(* any places of the input, in any order, on a state constructed with any  *)
(* baseline.                                                               *)

LocAlphabet == {"a", LF}
BaseLines == {1, 3}
BaseColumns == {1, 2}

\* location()
Location ==
    /\ Live
    /\ LET l == _computeLocation(cache, input, mark, offset)
       IN  /\ loc' = l.location
           /\ cache' = l.cache
    /\ scanned' = CountLocation(scanned, cache, input, mark, offset)
    /\ call' = NoCall
    /\ UNCHANGED <<input, offset, mark, expected, pc, ret, result, err, base,
                   calls, topLog, twin>>
    /\ UNCHANGED <<indentLevel, traced>>

\* The generated code sets the mark: this._mark = m.
SetMark(m) ==
    /\ Live
    /\ m \in 0..Len(input)
    /\ m # mark
    /\ mark' = m
    /\ UNCHANGED <<input, offset, expected, cache, pc, ret, result, err, loc,
                   base, call, calls, topLog, twin>>
    /\ UNCHANGED <<scanned, indentLevel, traced>>

InitLoc ==
    /\ \E inp \in Strings(LocAlphabet, MaxText), off \in 0..MaxBase,
          line \in BaseLines, column \in BaseColumns :
            /\ off <= Len(inp)
            /\ constructor(inp, off, line, column)
    /\ DefaultTracer

NextLoc ==
    \/ Location
    \/ \E m \in 0..MaxText : SetMark(m)
    \/ \E o \in 0..MaxText : Seek(o)

SpecLoc == InitLoc /\ [][NextLoc]_vars

\* The line and column of pos by a scan of the input from its start, with
\* no cache: a newline adds 1 to the line and sets the column to 1, any
\* other character adds 1 to the column.
RECURSIVE DirectScan(_, _, _)
DirectScan(inp, b, pos) ==
    IF pos = 0 THEN [line |-> b.line, column |-> b.column]
    ELSE LET d == DirectScan(inp, b, pos - 1)
         IN  IF inp[pos] = "\n"
                THEN [line |-> d.line + 1, column |-> 1]
                ELSE [line |-> d.line, column |-> d.column + 1]

LineColumn(position) == [line |-> position.line, column |-> position.column]

\* C6: every location query, at offsets within the input in any order and
\* repeated, returns the line and column of the direct scan from the start.
C6_CachedEqualsDirectScan ==
    /\ loc # NoLocation =>
        /\ LineColumn(loc.start) = DirectScan(input, base, loc.start.offset)
        /\ LineColumn(loc.end) = DirectScan(input, base, loc.end.offset)
    /\ \A p \in DOMAIN cache : cache[p] = DirectScan(input, base, p)

\* C6 witness: a query has been answered from a cache filled by earlier
\* queries out of order, for a span that goes back over a newline.
C6_Witness ==
    /\ loc # NoLocation
    /\ Cardinality(DOMAIN cache) >= 3
    /\ loc.start.offset > loc.end.offset
    /\ loc.start.line > loc.end.line
    /\ loc.end.offset > 0

\* C7 (as claimed): with a baseline (offset b, line l, column c), the cache
\* is seeded at offset b, so the position reported for offset b has line l
\* and column c.
C7_BaselineAtBaseOffset ==
    /\ base.offset \in DOMAIN cache =>
        cache[base.offset] = [line |-> base.line, column |-> base.column]
    /\ (loc # NoLocation /\ loc.start.offset = base.offset) =>
        LineColumn(loc.start) = [line |-> base.line, column |-> base.column]

\* The number of characters the scans have examined in all.
TotalScanned ==
    LET RECURSIVE sum(_)
        sum(i) == IF i = 0 THEN 0 ELSE scanned.times[i] + sum(i - 1)
    IN  sum(Len(scanned.times))

\* C12 (as claimed): across any sequence of location queries, at any offsets
\* of the input in any order, each character of the input is examined by the
\* line/column scan at most once, so that the scans examine no more
\* characters in all than the input has.
C12_EachCharScannedOnce ==
    /\ \A i \in DOMAIN scanned.times : scanned.times[i] <= 1
    /\ TotalScanned <= Len(input)

\* C12 (amended): the same, across any sequence of location queries none of
\* which asks for a position below one asked for before.
C12_ScannedOnceInOrder ==
    scanned.ordered =>
        /\ \A i \in DOMAIN scanned.times : scanned.times[i] <= 1
        /\ TotalScanned <= Len(input)

\* C12 witness: queries at rising positions have filled three cache slots
\* and have examined each of the two characters of the input once.
C12_Witness ==
    /\ scanned.ordered
    /\ Len(input) = 2
    /\ Cardinality(DOMAIN cache) >= 3
    /\ \A i \in DOMAIN scanned.times : scanned.times[i] = 1

----------------------------------------------------------------------------
(* The frame stack over the life of a ParserState.                         *)

\* C11 (as claimed): in every reachable state, from construction onward, the
\* frame stack is non-empty, so that _expect and buildError find a frame.
C11_StackNeverEmpty == Len(expected) >= 1

\* C11 (amended): from the moment parse() has pushed the root frame, under
\* any sequence of balanced _begin/_end, _expect and matcher calls, the frame
\* stack is non-empty, and the error parse() throws is built from its bottom
\* frame; between construction and parse() the stack is empty.
C11_StackNonEmptyInParse ==
    /\ pc = "ready" => expected = <<>>
    /\ pc # "ready" => Len(expected) >= 1
    /\ pc = "thrown" => err.expected = expected[1].variants

\* C11 witness: a nested frame that had recorded an expectation further on
\* was closed, and the root frame is what stays on the stack.
C11_Witness ==
    /\ pc = "rule"
    /\ Len(expected) = 1
    /\ calls.offset > expected[1].offset

\* C15: every error built by buildError for a root frame at offset f has, if
\* f is within the input, found equal to the character at f and a location
\* spanning [f, f + 1), and otherwise found null and a zero-width location at
\* f; found is null exactly when the location is zero-width, and the start
\* offset is never above the end offset.
C15_FoundAndLocation ==
    pc = "thrown" =>
        LET f == expected[1].offset
            location == err.location
        IN  /\ f < Len(input) =>
                /\ err.found = Str(<<input[f + 1]>>)
                /\ location.start.offset = f
                /\ location.end.offset = f + 1
            /\ f >= Len(input) =>
                /\ err.found = Null
                /\ location.start.offset = f
                /\ location.end.offset = f
            /\ (err.found = Null) <=>
                    (location.start.offset = location.end.offset)
            /\ location.start.offset <= location.end.offset

\* C15 witness: parse() has thrown the error of a root frame within the
\* input, whose character it reports as found, after an expectation recorded
\* in the root frame.
C15_Witness ==
    /\ pc = "thrown"
    /\ expected[1].offset < Len(input)
    /\ expected[1].variants # <<>>
    /\ err.found = Str(<<"a">>)
    /\ err.location.end.offset = 1

\* C19 (as claimed): every error parse() throws through buildError has a
\* non-empty expected list whenever the rule function called _expect at
\* least once, in any frame, before it returned, and so its message does not
\* describe an empty set of expectations.
C19_ExpectedNonEmpty ==
    (pc = "thrown" /\ calls.offset >= 0) =>
        /\ Len(err.expected) >= 1
        /\ err.message # buildMessage(<<>>, err.found)

\* C20: under any sequence of _begin, _end, _expect, matcher calls and
\* backtracking, the recorded offset of a frame never decreases while the
\* frame is on the stack: it changes only in _expect, only for the top
\* frame, to the cursor offset, which is strictly greater; and _begin, _end
\* and _expect leave the cursor offset and the mark as they are.
C20_FrameOffsetsRise ==
    [][/\ \A i \in 1..Min(Len(expected), Len(expected')) :
            /\ expected'[i].offset >= expected[i].offset
            /\ expected'[i].offset # expected[i].offset =>
                /\ i = Len(expected)
                /\ Len(expected') = Len(expected)
                /\ expected'[i].offset = offset
                /\ \/ \E e \in MainExpectations : ExpectStep(e)
                   \/ \E res \in RuleResults : Return(res)
       /\ (\/ BeginStep
           \/ \E inv \in BOOLEAN : EndStep(inv)
           \/ \E e \in MainExpectations : ExpectStep(e))
            => UNCHANGED <<offset, mark>>]_vars

\* C20 witness: the top frame has taken the offset of an _expect call made
\* further on than the frame below it, and the cursor has moved back since.
C20_Witness ==
    /\ pc = "rule"
    /\ Len(expected) = 2
    /\ expected[2].variants # <<>>
    /\ expected[2].offset > expected[1].offset
    /\ offset < expected[2].offset

----------------------------------------------------------------------------
(* expected() and error(), called by the code of an action or a predicate. *)
(* The generated code sets the mark at or before the offset before it      *)
(* calls that code.                                                        *)

ThrowAlphabet == {"a", "\""}
ThrowTexts == {<<"x">>, <<"\"">>}
SuppliedLocation ==
    [source |-> _source,
     start |-> [offset |-> 0, line |-> 7, column |-> 7],
     end |-> [offset |-> 0, line |-> 7, column |-> 8]]
ThrowLocations == {NoValue, Null, SuppliedLocation}

\* The call has thrown what was raised: parse() is left by the exception.
Thrown(op, arg, location, raised) ==
    /\ Live
    /\ mark <= offset
    /\ err' = raised.error
    /\ cache' = raised.cache
    /\ pc' = "thrown"
    /\ scanned' = IF location = NoValue
                    THEN CountLocation(scanned, cache, input, mark, offset)
                    ELSE scanned
    /\ call' = [op |-> op, arg |-> arg, location |-> location,
                mark |-> mark, offset |-> offset, stack |-> expected]
    /\ UNCHANGED <<input, offset, mark, expected, ret, result, loc, base,
                   calls, topLog, twin, indentLevel, traced>>

ThrowExpected(description, location) ==
    Thrown("expected", description, location,
           raiseExpected(input, mark, offset, cache, description, location))

ThrowError(message, location) ==
    Thrown("error", message, location,
           raiseError(input, mark, offset, cache, message, location))

InitThrow ==
    /\ \E inp \in Strings(ThrowAlphabet, MaxText) : constructor(inp, 0, 1, 1)
    /\ DefaultTracer

NextThrow ==
    \/ MatchParse
    \/ \E o \in 0..MaxText : Seek(o)
    \/ \E m \in 0..MaxText : SetMark(m)
    \/ \E description \in ThrowTexts, location \in ThrowLocations :
        ThrowExpected(description, location)
    \/ \E message \in ThrowTexts, location \in ThrowLocations :
        ThrowError(message, location)

SpecThrow == InitThrow /\ [][NextThrow]_vars

\* The location of [m, off) by the uncached scan.
DirectLocation(m, off) ==
    LET s == DirectScan(input, base, m)
        e == DirectScan(input, base, off)
    IN  [source |-> _source,
         start |-> [offset |-> m, line |-> s.line, column |-> s.column],
         end |-> [offset |-> off, line |-> e.line, column |-> e.column]]

----------------------------------------------------------------------------
(* DefaultTracer: the events of a parse are well nested, a rule.match or a *)
(* rule.fail closes the rule entered last; events of another type may come *)
(* at any time.                                                            *)

MaxNest == 3        \* most rules entered and not yet left

RuleEnter == <<"r", "u", "l", "e", ".", "e", "n", "t", "e", "r">>
RuleMatch == <<"r", "u", "l", "e", ".", "m", "a", "t", "c", "h">>
RuleFail == <<"r", "u", "l", "e", ".", "f", "a", "i", "l">>
InvalidEventText ==
    <<"I", "n", "v", "a", "l", "i", "d", " ", "e", "v", "e", "n", "t", " ",
      "t", "y", "p", "e", ":", " ">>

\* String.prototype.repeat(n), n >= 0
RECURSIVE repeat(_, _)
repeat(s, n) == IF n = 0 THEN <<>> ELSE s \o repeat(s, n - 1)

\* The string of a non-negative number, in decimal.
RECURSIVE toString10(_)
toString10(n) ==
    IF n < 10 THEN <<HexDigits[n + 1]>>
    ELSE toString10(n \div 10) \o <<HexDigits[(n % 10) + 1]>>

pad(string, length) == string \o repeat(<<" ">>, length - Len(string))

toString1(pos) == toString10(pos.line) \o <<":">> \o toString10(pos.column)

toString2(location) ==
    toString1(location.start) \o <<"-">> \o toString1(location.end)

\* log(event, indentLevel): the line printed, with the indentation asked for.
log(event, level) ==
    [indent |-> level,
     text |-> toString2(event.location) \o <<" ">> \o pad(event.type, 10)
                \o <<" ">> \o repeat(<<" ", " ">>, level) \o event.rule]

\* trace(event) at a level: the level after, the line printed and the error
\* thrown.
traceMutant(level, event) ==
    CASE event.type = RuleEnter ->
            [indentLevel |-> level + 1, printed |-> log(event, level),
             thrown |-> NoError]
      [] event.type \in {RuleMatch, RuleFail} ->
            [indentLevel |-> level - 1, printed |-> log(event, level),
             thrown |-> NoError]
      [] OTHER ->
            [indentLevel |-> level, printed |-> NoLine,
             thrown |-> [name |-> "Error",
                         message |-> InvalidEventText \o event.type
                                        \o <<".">>]]
trace(level, event) ==
    CASE event.type = RuleEnter ->
            [indentLevel |-> level + 1, printed |-> log(event, level),
             thrown |-> NoError]
      [] event.type \in {RuleMatch, RuleFail} ->
            [indentLevel |-> level - 1, printed |-> log(event, level - 1),
             thrown |-> NoError]
      [] OTHER ->
            [indentLevel |-> level, printed |-> NoLine,
             thrown |-> [name |-> "Error",
                         message |-> InvalidEventText \o event.type
                                        \o <<".">>]]

TracedRules == {<<"r">>, <<"s">>, <<"t">>}
OtherTypes == {<<"r", "u", "l", "e">>}
EventLocation ==
    [source |-> _source,
     start |-> [offset |-> 0, line |-> 1, column |-> 1],
     end |-> [offset |-> 11, line |-> 2, column |-> 10]]
Event(type, rule) == [type |-> type, rule |-> rule, location |-> EventLocation]

\* The tracer is given an event; open is the stack of rules after it.
Traced(event, open, closed) ==
    LET t == trace(indentLevel, event)
    IN  /\ indentLevel' = t.indentLevel
        /\ traced' = [event |-> event, printed |-> t.printed,
                      thrown |-> t.thrown, before |-> indentLevel,
                      open |-> open, closed |-> closed]
        /\ UNCHANGED <<input, offset, mark, expected, cache, pc, ret, result,
                       err, loc, base, call, calls, topLog, twin, scanned>>

\* A rule is entered.
TraceEnter(rule) ==
    /\ Len(traced.open) < MaxNest
    /\ Traced(Event(RuleEnter, rule),
              Append(traced.open, [rule |-> rule, indent |-> indentLevel]),
              NoLine)

\* The rule entered last matches or fails.
TraceLeave(type) ==
    /\ traced.open # <<>>
    /\ LET n == Len(traced.open)
       IN  Traced(Event(type, traced.open[n].rule),
                  SubSeq(traced.open, 1, n - 1), traced.open[n])

\* The tracer is given an event of a type it does not know.
TraceOther(type, rule) == Traced(Event(type, rule), traced.open, NoLine)

InitTrace ==
    /\ constructor(<<>>, 0, 1, 1)
    /\ DefaultTracer

NextTrace ==
    \/ \E rule \in TracedRules : TraceEnter(rule)
    \/ \E type \in {RuleMatch, RuleFail} : TraceLeave(type)
    \/ \E type \in OtherTypes, rule \in TracedRules : TraceOther(type, rule)

SpecTrace == InitTrace /\ [][NextTrace]_vars

\* C18: for every well-nested sequence of events, after each event the level
\* of the tracer is the number of rules entered and not yet matched or
\* failed (never negative, 0 when every rule is left), each rule.match and
\* rule.fail line is printed with the indentation of the rule.enter line of
\* the same invocation, and an event of another type raises an error and
\* leaves the level as it was.
C18_IndentFollowsNesting ==
    /\ indentLevel = Len(traced.open)
    /\ indentLevel >= 0
    /\ traced.event.type = RuleEnter =>
        /\ traced.thrown = NoError
        /\ traced.printed.indent = traced.open[Len(traced.open)].indent
    /\ traced.event.type \in {RuleMatch, RuleFail} =>
        /\ traced.thrown = NoError
        /\ traced.printed.indent = traced.closed.indent
        /\ traced.printed.text =
                log(traced.event, traced.closed.indent).text
    /\ traced.event.type \in OtherTypes =>
        /\ traced.thrown # NoError
        /\ traced.printed = NoLine
        /\ indentLevel = traced.before

\* C18 witness: a rule entered inside another has just failed, and its line
\* was printed one level in, where its rule.enter line was.
C18_Witness ==
    /\ traced.event.type = RuleFail
    /\ Len(traced.open) = 1
    /\ indentLevel = 1
    /\ traced.closed.indent = 1
    /\ traced.printed.indent = 1

----------------------------------------------------------------------------
(* The text of a syntax error: describeExpectation, describeExpected,      *)
(* describeFound and buildMessage are applied to expectations, lists and   *)
(* found values drawn from small sets.                                     *)

MaxList == 3        \* longest list of expectations described
MaxParts == 2       \* most parts in a class expectation described
MaxFound == 2       \* longest found text described

DescribedExpectations ==
    {AnyChar, EndOfInput, Literal(<<"a">>), Rule(<<"b">>), User(<<"b">>),
     Not(AnyChar)}
ClassParts == {CharPart("a"), CharPart("]"), RangePart("a", "z")}
DescribedClasses ==
    {Class(parts, inverted) :
        parts \in Strings(ClassParts, MaxParts), inverted \in BOOLEAN}
FoundAlphabet == {"a", "\"", LF, SOH}
FoundValues == {Null} \cup {Str(s) : s \in Strings(FoundAlphabet, MaxFound)}
MessageFound == {Null, Str(<<>>), Str(<<"a">>)}

\* A function of the error module, which keeps no state from one call to
\* the next, is applied once and has returned value: the call is noted.
Described(op, args, value) ==
    /\ call = NoCall
    /\ ret' = Str(value)
    /\ call' = [op |-> op, args |-> args]
    /\ UNCHANGED <<input, offset, mark, expected, cache, pc, result, err, loc,
                   base, calls, topLog, twin, scanned, indentLevel, traced>>

DescribeExpectation(expectation) ==
    Described("describeExpectation", [expectation |-> expectation],
              describeExpectation(expectation))

DescribeExpected(list) ==
    Described("describeExpected", [expected |-> list], describeExpected(list))

DescribeFound(found) ==
    Described("describeFound", [found |-> found], describeFound(found))

BuildMessage(list, found) ==
    Described("buildMessage", [expected |-> list, found |-> found],
              buildMessage(list, found))

InitDescribe ==
    /\ constructor(<<>>, 0, 1, 1)
    /\ DefaultTracer

NextDescribe ==
    \/ \E e \in DescribedExpectations \cup DescribedClasses :
        DescribeExpectation(e)
    \/ \E list \in Strings(DescribedExpectations, MaxList) :
        DescribeExpected(list)
    \/ \E found \in FoundValues : DescribeFound(found)
    \/ \E list \in Strings(DescribedExpectations, MaxList),
          found \in MessageFound : BuildMessage(list, found)

SpecDescribe == InitDescribe /\ [][NextDescribe]_vars

\* The set of the phrases of a list of expectations.
PhrasesOf(list) == {describeExpectation(list[i]) : i \in 1..Len(list)}

\* The phrases of a set, each once, in ascending order of their code units.
Ascending(S) ==
    CHOOSE s \in [1..Cardinality(S) -> S] :
        \A i \in 1..(Cardinality(S) - 1) : before(s[i], s[i + 1])

\* The text that lists the phrases of a non-empty set in that order.
Listed(S) ==
    LET s == Ascending(S)
        n == Len(s)
        RECURSIVE commas(_)
        commas(i) == IF i = 1 THEN s[1] ELSE commas(i - 1) \o CommaText \o s[i]
    IN  IF n = 1 THEN s[1]
        ELSE IF n = 2 THEN s[1] \o OrText \o s[2]
        ELSE commas(n - 1) \o CommaOrText \o s[n]

Reverse(list) == [i \in 1..Len(list) |-> list[Len(list) + 1 - i]]

\* C13: describeExpected of a non-empty list depends only on the set of the
\* phrases of its expectations: the descriptions it works on are the distinct
\* phrases, each once, in ascending lexicographic order, the same string is
\* returned for the list reversed and for the list with every element
\* repeated, and buildMessage is the same for the list in another order.
C13_DescribedBySet ==
    /\ (call.op = "describeExpected" /\ call.args.expected # <<>>) =>
        LET list == call.args.expected
        IN  /\ sortedDescriptions(list) = Ascending(PhrasesOf(list))
            /\ ret.s = Listed(PhrasesOf(list))
            /\ ret.s = describeExpected(Reverse(list))
            /\ ret.s = describeExpected(list \o list)
    /\ (call.op = "buildMessage" /\ call.args.expected # <<>>) =>
        ret.s = buildMessage(Reverse(call.args.expected), call.args.found)

\* C13 witness: a list of three expectations was described that is not in
\* order and in which two expectations have the same phrase.
C13_Witness ==
    /\ call.op = "describeExpected"
    /\ Len(call.args.expected) = 3
    /\ Cardinality(PhrasesOf(call.args.expected)) = 2
    /\ before(describeExpectation(call.args.expected[2]),
              describeExpectation(call.args.expected[1]))
    /\ Len(sortedDescriptions(call.args.expected)) = 2

\* C14 (as claimed): describeFound returns "end of input" only when found is
\* null; for every string, the empty string included, it returns the text
\* escaped and between double quotes.
C14_FoundDescribed ==
    call.op = "describeFound" =>
        IF call.args.found = Null THEN ret.s = EndOfInputText
        ELSE ret.s = <<"\"">> \o literalEscape(call.args.found.s) \o <<"\"">>

\* C17 (as claimed): the phrase of a class expectation is "[", then "^" if
\* and only if the class is inverted, then the rendered parts in order with
\* nothing between them, then "]", for every number of parts.
C17_ClassRendered ==
    (call.op = "describeExpectation"
        /\ call.args.expectation.type = "class") =>
        LET class == call.args.expectation
            rendered == [i \in 1..Len(class.parts) |->
                            describePart(class.parts[i])]
        IN  ret.s = <<"[">> \o (IF class.inverted THEN <<"^">> ELSE <<>>)
                        \o join(rendered, <<>>) \o <<"]">>

====
